---- MODULE Spec2Model ----
(***************************************************************************)
(* Model of the peer-update orchestrator of reth-crawler                   *)
(* (bins/reth-crawler/src/crawler/listener/update_listener.rs):            *)
(*   - the failure ledger (p2p_failures) and the ban policy applied by the *)
(*     handshake tasks spawned by start_discv4 / start_dnsdisc,            *)
(*   - the metadata-only tasks spawned by start_network,                   *)
(*   - the recency cache (BlockHashNum, an LruCache of capacity            *)
(*     SYNCED_THRESHOLD) filled by initialize_state and start_state.       *)
(* A task is modelled at the granularity of its await points: everything a *)
(* task does between two awaits is one action.                             *)
(***************************************************************************)
EXTENDS Integers, Sequences, FiniteSets, TLC

VARIABLES
    tasks,                  \* slot -> the spawned task running in it (locals + position)
    spawned,                \* number of tasks spawned so far
    p2p_failures,           \* the failure ledger: HashMap<PeerId, u64>
    banned,                 \* addresses handed to Discv4::ban_ip
    db,                     \* PeerData handed to save_peer
    blocks_hash_to_number,  \* the LruCache, most recently used entry first
    put_log,                \* history: every hash put into the cache, oldest first
    head,                   \* height of the provider's newest block
    live_blocks,            \* number of blocks delivered by the subscription
    init_pc,                \* position of initialize_state
    last_block_number,      \* initialize_state: result of get_block_number
    block_number,           \* initialize_state: next height of the for loop
    init_runs,              \* calls of initialize_state so far
    loops,                  \* driver loop -> position of start_discv4 / start_dnsdisc /
                            \* start_network / start_state
    failures,               \* history: peer id -> layer-1 failures counted so far
    last_ban,               \* history: peer id -> value of failures at its last threshold ban
    race,                   \* history: slot -> the failure of an overlapping task of the
                            \* same identity that had read the same count, if any
    located                 \* history: slot -> what Locator::get returned to its task, if
                            \* it has returned

vars == <<tasks, spawned, p2p_failures, banned, db, blocks_hash_to_number,
          put_log, head, live_blocks, init_pc, last_block_number, block_number,
          init_runs, loops, failures, last_ban, race, located>>

\* The history of the handshakes is kept by the specifications that need it: the
\* actions of the tasks leave it open, and every specification says what becomes
\* of it.
history_vars == <<failures, last_ban, race, located>>
handshake_vars == <<tasks, spawned, p2p_failures, banned, db, history_vars>>
chain_vars == <<blocks_hash_to_number, put_log, head, live_blocks, init_pc,
                last_block_number, block_number, init_runs>>

----------------------------------------------------------------------------
(* Program constants *)

P2P_FAILURE_THRESHOLD == 5
SYNCED_THRESHOLD == 100

(* Bounds of the model *)

\* tasks spawned in one behaviour
MaxSpawn == 6
\* blocks the new-block subscription delivers in one behaviour
MaxLive == 1
\* tasks spawned in one behaviour while the backfill runs
MaxSyncSpawn == 2
\* tasks spawned in one behaviour that begins with the start of the driver loops
MaxStartSpawn == 1
\* calls of initialize_state in one behaviour
MaxRuns == 2
\* handshake tasks spawned for one identity in one behaviour with history
MaxRaceSpawn == 6
\* tasks spawned in a behaviour of SpecGeo
MaxGeoSpawn == 3

----------------------------------------------------------------------------
(* Inputs *)

Slots == {"s1", "s2"}

\* NodeRecord: two identities behind one address
Candidates == {[id |-> "p1", address |-> "10.0.0.1"],
               [id |-> "p2", address |-> "10.0.0.1"]}

PeerIds == {c.id : c \in Candidates}

\* hello.client_version as reported by the remote
ClientVersions == {"", "reth/v0.1.0"}

\* Display strings of the errors handshake_p2p can return, as lists of parts
P2PErrors == {<<"Disconnected", "Too many peers">>, <<"Timeout">>}

\* errors handshake_eth can return
EthErrors == {<<"Mismatched genesis">>}

\* results of Locator::get
GeoResults == {"Ok", "Err"}

\* heights the provider's newest block can have when the crawler starts
StartHeads == {99, 101}

\* H256 of the canonical block at a height, and of a block the provider never serves
BlockHash(n) == [chain |-> "canonical", number |-> n]
ForeignHash == [chain |-> "foreign", number |-> 0]

----------------------------------------------------------------------------
(* The failure ledger: HashMap<PeerId, u64> *)

\* HashMap::new()
EmptyLedger == [k \in {} |-> 0]


\* *rlock.get(&peer.id).unwrap_or(&0)
GetOrZero(map, id) == IF id \in DOMAIN map THEN map[id] ELSE 0

\* wlock.insert(peer.id, v)
Insert(map, id, v) == [k \in (DOMAIN map) \cup {id} |-> IF k = id THEN v ELSE map[k]]

\* mutant: the message is compared as a whole instead of searched
IsTooManyPeersExact(e) == e = <<"Too many peers">>

\* e.to_string().contains("Too many peers")
IsTooManyPeers(e) == \E i \in 1..Len(e) : e[i] = "Too many peers"

\* mutant: the ban comes one failure early
ReachedThresholdEarly(count) == count >= P2P_FAILURE_THRESHOLD - 1

\* mutant: the threshold is compared with > instead of >=
ReachedThresholdStrict(count) == count > P2P_FAILURE_THRESHOLD

\* p2p_failure_count >= P2P_FAILURE_THRESHOLD as u64
ReachedThreshold(count) == count >= P2P_FAILURE_THRESHOLD

\* p2p_failure_count += 1 (a u64; the counts of the model stay far below 2^64)
Increment(count) == count + 1

\* mutant: the ban stores the incremented count instead of resetting it
LedgerAfterBanNoReset(map, id, count) == Insert(map, id, count)

\* the ledger after a threshold ban: wlock.insert(peer.id, 0)
LedgerAfterBan(map, id, count) == Insert(map, id, 0)

\* mutant: the count that was read is stored, not the incremented one
LedgerAfterFailureNotIncremented(map, id, count) == Insert(map, id, count - 1)

\* the ledger after a failure below the threshold: wlock.insert(peer.id, count)
LedgerAfterFailure(map, id, count) == Insert(map, id, count)

\* mutant: the client_version check is missing
IsEmptyUnchecked(version) == FALSE

\* their_hello.client_version.is_empty()
IsEmpty(version) == version = ""

----------------------------------------------------------------------------
(* The recency cache: LruCache<H256, U64>, most recently used entry first *)

Keys(cache) == {cache[i].hash : i \in 1..Len(cache)}

\* mutant: the cache is built one entry too large
CacheCapacityPlusOne == SYNCED_THRESHOLD + 1

\* LruCache::new(NonZeroUsize::new(SYNCED_THRESHOLD as usize))
CacheCapacity == SYNCED_THRESHOLD

\* LruCache::contains: membership, the recency order is not touched
Contains(cache, h) == \E i \in 1..Len(cache) : cache[i].hash = h

RemoveKey(cache, h) == SelectSeq(cache, LAMBDA e : e.hash # h)

\* mutant: a full cache drops its most recently used entry
PutDropsNewest(cache, cap, h, n) ==
    LET entry == [hash |-> h, number |-> n]
    IN  IF Contains(cache, h) THEN <<entry>> \o RemoveKey(cache, h)
        ELSE IF Len(cache) >= cap THEN <<entry>> \o SubSeq(cache, 2, cap)
        ELSE <<entry>> \o cache

\* LruCache::put: an existing key is updated and becomes the most recently used;
\* a new key goes to the front, and the entry at the back is dropped when the
\* cache already holds cap entries
Put(cache, cap, h, n) ==
    LET entry == [hash |-> h, number |-> n]
    IN  IF Contains(cache, h) THEN <<entry>> \o RemoveKey(cache, h)
        ELSE IF Len(cache) >= cap THEN <<entry>> \o SubSeq(cache, 1, cap - 1)
        ELSE <<entry>> \o cache

----------------------------------------------------------------------------
(* Tasks *)

FreeTask == [pc |-> "free", adapter |-> "none", peer |-> [id |-> "none", address |-> "none"],
             p2p_failure_count |-> 0, error |-> <<>>, their_hello |-> <<>>,
             their_status |-> <<>>, calls |-> <<>>, peer_data |-> <<>>]

Terminal == {"free", "ret_capacity", "ret_banned", "ret_counted", "ret_eth", "ret_empty",
             "saved"}

\* UpdateListener::new: empty ledger, empty cache, nothing spawned; the chain is
\* the provider's
Constructed(heads) ==
    /\ tasks = [s \in Slots |-> FreeTask]
    /\ spawned = 0
    /\ p2p_failures = EmptyLedger
    /\ banned = {}
    /\ db = {}
    /\ blocks_hash_to_number = <<>>
    /\ put_log = <<>>
    /\ head \in heads
    /\ live_blocks = 0
    /\ init_pc = "start"
    /\ last_block_number = 0
    /\ block_number = 0
    /\ init_runs = 1
    /\ failures = EmptyLedger
    /\ last_ban = EmptyLedger
    /\ race = [s \in Slots |-> <<>>]
    /\ located = [s \in Slots |-> <<>>]

\* the four driver loops
Drivers == {"discv4", "dnsdisc", "network", "state"}

\* every driver loop is past its start-up and waits for the next item of its stream
Looping == [d \in Drivers |-> "loop"]

Init == Constructed({101}) /\ loops = Looping

----------------------------------------------------------------------------
(* start_discv4 / start_dnsdisc: one task per candidate *)

Call(t, name) == Append(tasks[t].calls, name)

\* The loop takes an update from its stream and spawns the task, which runs up to
\* its first await: send_lookup, the read of the ledger, the call of handshake_p2p.
\* A slot whose task has returned is taken over; limit caps the tasks of a behaviour.
SpawnHandshake(t, adapter, peer, limit) ==
    /\ loops[adapter] = "loop"
    /\ tasks[t].pc \in Terminal
    /\ spawned < limit
    /\ spawned' = spawned + 1
    /\ tasks' = [tasks EXCEPT ![t] =
            [pc |-> "handshake_p2p", adapter |-> adapter, peer |-> peer,
             p2p_failure_count |-> GetOrZero(p2p_failures, peer.id),
             error |-> <<>>, their_hello |-> <<>>, their_status |-> <<>>,
             calls |-> <<"send_lookup", "p2p_failures.get", "handshake_p2p">>,
             peer_data |-> <<>>]]
    /\ UNCHANGED <<p2p_failures, banned, db, chain_vars, loops>>

\* handshake_p2p returned Ok((p2p_stream, their_hello)): the task calls handshake_eth
HandshakeP2POk(t, version) ==
    /\ tasks[t].pc = "handshake_p2p"
    /\ tasks' = [tasks EXCEPT ![t].pc = "handshake_eth",
                              ![t].their_hello = <<[client_version |-> version]>>,
                              ![t].calls = Call(t, "handshake_eth")]
    /\ UNCHANGED <<spawned, p2p_failures, banned, db, chain_vars, loops>>

\* handshake_p2p returned Err(e)
HandshakeP2PErr(t, e) ==
    /\ tasks[t].pc = "handshake_p2p"
    /\ LET peer == tasks[t].peer
           count == Increment(tasks[t].p2p_failure_count)
           failed == [layer |-> "p2p", message |-> e]
       IN  IF IsTooManyPeers(e)
           THEN /\ tasks' = [tasks EXCEPT ![t].pc = "ret_capacity",
                                          ![t].error = <<failed>>]
                /\ UNCHANGED <<p2p_failures, banned>>
           ELSE IF ReachedThreshold(count)
           THEN /\ banned' = banned \cup {peer.address}
                /\ p2p_failures' = LedgerAfterBan(p2p_failures, peer.id, count)
                /\ tasks' = [tasks EXCEPT ![t].pc = "ret_banned",
                                          ![t].error = <<failed>>,
                                          ![t].p2p_failure_count = count,
                                          ![t].calls = tasks[t].calls \o
                                              <<"ban_ip", "p2p_failures.insert">>]
           ELSE /\ p2p_failures' = LedgerAfterFailure(p2p_failures, peer.id, count)
                /\ tasks' = [tasks EXCEPT ![t].pc = "ret_counted",
                                          ![t].error = <<failed>>,
                                          ![t].p2p_failure_count = count,
                                          ![t].calls = Call(t, "p2p_failures.insert")]
                /\ UNCHANGED banned
    /\ UNCHANGED <<spawned, db, chain_vars, loops>>

\* mutant: a layer-2 failure is counted in the ledger like a layer-1 failure
HandshakeEthErrCounted(t, e) ==
    /\ tasks[t].pc = "handshake_eth"
    /\ p2p_failures' = LedgerAfterFailure(p2p_failures, tasks[t].peer.id,
                                          Increment(tasks[t].p2p_failure_count))
    /\ tasks' = [tasks EXCEPT ![t].pc = "ret_eth",
                              ![t].error = <<[layer |-> "eth", message |-> e]>>,
                              ![t].calls = Call(t, "p2p_failures.insert")]
    /\ UNCHANGED <<spawned, banned, db, chain_vars, loops>>

\* handshake_eth returned Err(e): permanent ban, no ledger access
HandshakeEthErr(t, e) ==
    /\ tasks[t].pc = "handshake_eth"
    /\ banned' = banned \cup {tasks[t].peer.address}
    /\ tasks' = [tasks EXCEPT ![t].pc = "ret_eth",
                              ![t].error = <<[layer |-> "eth", message |-> e]>>,
                              ![t].calls = Call(t, "ban_ip")]
    /\ UNCHANGED <<spawned, p2p_failures, db, chain_vars, loops>>

\* mutant: Locator::get is called before the client_version is checked, as in
\* start_network, and the check is left out
HandshakeEthOkLocateFirst(t, hash) ==
    /\ tasks[t].pc = "handshake_eth"
    /\ tasks' = [tasks EXCEPT ![t].pc = "locate",
                              ![t].their_status = <<[blockhash |-> hash]>>,
                              ![t].calls = Call(t, "Locator::get")]
    /\ UNCHANGED <<spawned, p2p_failures, banned, db, chain_vars, loops>>

\* handshake_eth returned Ok((_, their_status)): the client_version check, then
\* the call of Locator::get
HandshakeEthOk(t, hash) ==
    /\ tasks[t].pc = "handshake_eth"
    /\ IF IsEmpty(tasks[t].their_hello[1].client_version)
       THEN /\ banned' = banned \cup {tasks[t].peer.address}
            /\ tasks' = [tasks EXCEPT ![t].pc = "ret_empty",
                                      ![t].their_status = <<[blockhash |-> hash]>>,
                                      ![t].calls = Call(t, "ban_ip")]
       ELSE /\ tasks' = [tasks EXCEPT ![t].pc = "locate",
                                      ![t].their_status = <<[blockhash |-> hash]>>,
                                      ![t].calls = Call(t, "Locator::get")]
            /\ UNCHANGED banned
    /\ UNCHANGED <<spawned, p2p_failures, db, chain_vars, loops>>

\* the country of a Locator::get result; String::default() when the lookup failed
Country(geo) == IF geo = "Ok" THEN "country" ELSE ""

\* the city of a Locator::get result; String::default() when the lookup failed
City(geo) == IF geo = "Ok" THEN "city" ELSE ""

\* the isp of a Locator::get result; String::default() when the lookup failed
Isp(geo) == IF geo = "Ok" THEN "isp" ELSE ""

\* mutant: the two branches of the classification are swapped
SyncedSwapped(cache, hash) == ~Contains(cache, hash)

\* synced: Some(true) when the cache contains the peer's best block, else Some(false)
Synced(cache, hash) == Contains(cache, hash)

PeerData(peer, version, hash, geo, cache) ==
    [id |-> peer.id, address |-> peer.address, client_version |-> version,
     best_block |-> hash, country |-> Country(geo), city |-> City(geo),
     synced |-> Synced(cache, hash), isp |-> Isp(geo)]

\* mutant: the classification looks the hash up with LruCache::get, which makes
\* the entry the most recently used
LocateWithGet(t, geo) ==
    /\ tasks[t].pc = "locate"
    /\ tasks[t].adapter \in {"discv4", "dnsdisc"}
    /\ LET hash == tasks[t].their_status[1].blockhash
           data == PeerData(tasks[t].peer, tasks[t].their_hello[1].client_version,
                            hash, geo, blocks_hash_to_number)
           found == SelectSeq(blocks_hash_to_number, LAMBDA e : e.hash = hash)
       IN  /\ db' = db \cup {data}
           /\ blocks_hash_to_number' = found \o RemoveKey(blocks_hash_to_number, hash)
           /\ tasks' = [tasks EXCEPT ![t].pc = "saved",
                                     ![t].peer_data = <<data>>,
                                     ![t].calls = tasks[t].calls \o <<"contains", "save_peer">>]
    /\ UNCHANGED <<spawned, p2p_failures, banned, loops, put_log, head,
                   live_blocks, init_pc, last_block_number, block_number, init_runs>>

\* mutant: a failed lookup ends the task
LocateOrReturn(t, geo) ==
    /\ tasks[t].pc = "locate"
    /\ tasks[t].adapter \in {"discv4", "dnsdisc"}
    /\ LET data == PeerData(tasks[t].peer, tasks[t].their_hello[1].client_version,
                            tasks[t].their_status[1].blockhash, geo,
                            blocks_hash_to_number)
       IN  IF geo = "Err"
           THEN /\ tasks' = [tasks EXCEPT ![t].pc = "ret_empty"]
                /\ UNCHANGED db
           ELSE /\ db' = db \cup {data}
                /\ tasks' = [tasks EXCEPT ![t].pc = "saved",
                                          ![t].peer_data = <<data>>,
                                          ![t].calls = tasks[t].calls \o <<"contains", "save_peer">>]
    /\ UNCHANGED <<spawned, p2p_failures, banned, chain_vars, loops>>

\* Locator::get returned: the fields are filled in, the sync status is classified
\* under the read lock, PeerData is assembled and handed to save_peer
Locate(t, geo) ==
    /\ tasks[t].pc = "locate"
    /\ tasks[t].adapter \in {"discv4", "dnsdisc"}
    /\ LET data == PeerData(tasks[t].peer, tasks[t].their_hello[1].client_version,
                            tasks[t].their_status[1].blockhash, geo,
                            blocks_hash_to_number)
       IN  /\ db' = db \cup {data}
           /\ tasks' = [tasks EXCEPT ![t].pc = "saved",
                                     ![t].peer_data = <<data>>,
                                     ![t].calls = tasks[t].calls \o <<"contains", "save_peer">>]
    /\ UNCHANGED <<spawned, p2p_failures, banned, chain_vars, loops>>

----------------------------------------------------------------------------
(* start_network: one task per SessionEstablished event *)

\* The task drops the session and calls Locator::get; the hello and the status
\* come with the event.
SessionEstablished(t, peer, version, hash, limit) ==
    /\ loops["network"] = "loop"
    /\ tasks[t].pc \in Terminal
    /\ spawned < limit
    /\ spawned' = spawned + 1
    /\ tasks' = [tasks EXCEPT ![t] =
            [pc |-> "locate", adapter |-> "network", peer |-> peer,
             p2p_failure_count |-> 0, error |-> <<>>,
             their_hello |-> <<[client_version |-> version]>>,
             their_status |-> <<[blockhash |-> hash]>>,
             calls |-> <<"remove_peer", "Locator::get">>, peer_data |-> <<>>]]
    /\ UNCHANGED <<p2p_failures, banned, db, chain_vars, loops>>

\* mutant: the peer with an empty client_version is banned, as the TODO of the
\* source proposes
NetworkLocateBans(t, geo) ==
    /\ tasks[t].pc = "locate"
    /\ tasks[t].adapter = "network"
    /\ IF IsEmpty(tasks[t].their_hello[1].client_version)
       THEN /\ banned' = banned \cup {tasks[t].peer.address}
            /\ tasks' = [tasks EXCEPT ![t].pc = "ret_empty",
                                      ![t].calls = Call(t, "ban_ip")]
            /\ UNCHANGED db
       ELSE LET data == PeerData(tasks[t].peer, tasks[t].their_hello[1].client_version,
                                 tasks[t].their_status[1].blockhash, geo,
                                 blocks_hash_to_number)
            IN  /\ db' = db \cup {data}
                /\ tasks' = [tasks EXCEPT ![t].pc = "saved",
                                          ![t].peer_data = <<data>>,
                                          ![t].calls = tasks[t].calls \o <<"contains", "save_peer">>]
                /\ UNCHANGED banned
    /\ UNCHANGED <<spawned, p2p_failures, chain_vars, loops>>

\* Locator::get returned: the client_version check (no ban), the classification,
\* the hand-over to save_peer
NetworkLocate(t, geo) ==
    /\ tasks[t].pc = "locate"
    /\ tasks[t].adapter = "network"
    /\ IF IsEmpty(tasks[t].their_hello[1].client_version)
       THEN /\ tasks' = [tasks EXCEPT ![t].pc = "ret_empty"]
            /\ UNCHANGED db
       ELSE LET data == PeerData(tasks[t].peer, tasks[t].their_hello[1].client_version,
                                 tasks[t].their_status[1].blockhash, geo,
                                 blocks_hash_to_number)
            IN  /\ db' = db \cup {data}
                /\ tasks' = [tasks EXCEPT ![t].pc = "saved",
                                          ![t].peer_data = <<data>>,
                                          ![t].calls = tasks[t].calls \o <<"contains", "save_peer">>]
    /\ UNCHANGED <<spawned, p2p_failures, banned, chain_vars, loops>>

----------------------------------------------------------------------------
(* initialize_state: the backfill of the cache *)

\* last_block_number.as_u64() - SYNCED_THRESHOLD underflows the u64
Underflows(last) == last < SYNCED_THRESHOLD

\* mutant: the range of the for loop starts one height later and has
\* SYNCED_THRESHOLD heights
GetBlockNumberOkHundred ==
    /\ init_pc = "start"
    /\ last_block_number' = head
    /\ IF Underflows(head)
       THEN /\ init_pc' \in {"panicked", "ok"}
            /\ UNCHANGED block_number
       ELSE /\ init_pc' = "loop"
            /\ block_number' = head - SYNCED_THRESHOLD + 1
    /\ UNCHANGED <<handshake_vars, loops, blocks_hash_to_number, put_log, head, live_blocks, init_runs>>

\* get_block_number returned Ok(last): the range of the for loop is computed.
\* When the subtraction underflows, a build with overflow checks panics; a build
\* without wraps to 2^64 - (SYNCED_THRESHOLD - last), which is above last, so the
\* range is empty and the function returns Ok(()) at once.
GetBlockNumberOk ==
    /\ init_pc = "start"
    /\ last_block_number' = head
    /\ IF Underflows(head)
       THEN /\ init_pc' \in {"panicked", "ok"}
            /\ UNCHANGED block_number
       ELSE /\ init_pc' = "loop"
            /\ block_number' = head - SYNCED_THRESHOLD
    /\ UNCHANGED <<handshake_vars, loops, blocks_hash_to_number, put_log, head, live_blocks, init_runs>>

\* get_block_number returned Err: `?` returns it
GetBlockNumberErr ==
    /\ init_pc = "start"
    /\ init_pc' = "err"
    /\ UNCHANGED <<handshake_vars, loops, blocks_hash_to_number, put_log, head, live_blocks,
                   last_block_number, block_number, init_runs>>

\* get_block(block_number) returned the block: it is put into the cache and the
\* loop goes on to the next height, or ends after last_block_number
GetBlockOk ==
    /\ init_pc = "loop"
    /\ blocks_hash_to_number' =
           Put(blocks_hash_to_number, CacheCapacity, BlockHash(block_number), block_number)
    /\ put_log' = Append(put_log, BlockHash(block_number))
    /\ IF block_number = last_block_number
       THEN init_pc' = "ok" /\ UNCHANGED block_number
       ELSE init_pc' = "loop" /\ block_number' = block_number + 1
    /\ UNCHANGED <<handshake_vars, loops, head, live_blocks, last_block_number, init_runs>>

\* mutant: a height that cannot be fetched is skipped
GetBlockErrSkipped ==
    /\ init_pc = "loop"
    /\ IF block_number = last_block_number
       THEN init_pc' = "ok" /\ UNCHANGED block_number
       ELSE init_pc' = "loop" /\ block_number' = block_number + 1
    /\ UNCHANGED <<handshake_vars, loops, blocks_hash_to_number, put_log, head, live_blocks,
                   last_block_number, init_runs>>

\* get_block(block_number) returned Err: `?` returns it
GetBlockErr ==
    /\ init_pc = "loop"
    /\ init_pc' = "err"
    /\ UNCHANGED <<handshake_vars, loops, blocks_hash_to_number, put_log, head, live_blocks,
                   last_block_number, block_number, init_runs>>

\* get_block(block_number) returned Ok(None), or a block without hash or number:
\* expect("it's not a pending block") panics
GetBlockNone ==
    /\ init_pc = "loop"
    /\ init_pc' = "panicked"
    /\ UNCHANGED <<handshake_vars, loops, blocks_hash_to_number, put_log, head, live_blocks,
                   last_block_number, block_number, init_runs>>

\* initialize_state has returned Ok(()) and is called once more on the same cache
InitializeStateAgain ==
    /\ init_pc = "ok"
    /\ init_runs < MaxRuns
    /\ init_runs' = init_runs + 1
    /\ init_pc' = "start"
    /\ UNCHANGED <<handshake_vars, loops, blocks_hash_to_number, put_log, head, live_blocks,
                   last_block_number, block_number>>

----------------------------------------------------------------------------
(* start_state: the live tracker *)

\* the subscription delivers the next block of the chain: it is put into the cache
NewBlock ==
    /\ loops["state"] = "loop"
    /\ live_blocks < MaxLive
    /\ live_blocks' = live_blocks + 1
    /\ head' = head + 1
    /\ blocks_hash_to_number' =
           Put(blocks_hash_to_number, CacheCapacity, BlockHash(head + 1), head + 1)
    /\ put_log' = Append(put_log, BlockHash(head + 1))
    /\ UNCHANGED <<handshake_vars, loops, init_pc, last_block_number, block_number, init_runs>>

----------------------------------------------------------------------------
(* The stream adapters and their tasks; no block arrives and the cache stays as
   constructed *)

Discv4Update ==
    \E t \in Slots, peer \in Candidates :
        SpawnHandshake(t, "discv4", peer, MaxSpawn) /\ UNCHANGED history_vars
DnsNodeRecordUpdate ==
    \E t \in Slots, peer \in Candidates :
        SpawnHandshake(t, "dnsdisc", peer, MaxSpawn) /\ UNCHANGED history_vars
P2POk ==
    \E t \in Slots, version \in ClientVersions :
        HandshakeP2POk(t, version) /\ UNCHANGED history_vars
P2PErr == \E t \in Slots, e \in P2PErrors : HandshakeP2PErr(t, e) /\ UNCHANGED history_vars
EthErr ==
    \E t \in Slots, e \in EthErrors :
        HandshakeEthErr(t, e) /\ UNCHANGED history_vars
EthOk ==
    \E t \in Slots :
        HandshakeEthOk(t, ForeignHash) /\ UNCHANGED history_vars
Located ==
    \E t \in Slots, geo \in GeoResults :
        Locate(t, geo) /\ UNCHANGED history_vars
NetworkEvent ==
    \E t \in Slots, peer \in Candidates, version \in ClientVersions :
        SessionEstablished(t, peer, version, ForeignHash, MaxSpawn) /\ UNCHANGED history_vars
NetworkLocated ==
    \E t \in Slots, geo \in GeoResults :
        NetworkLocate(t, geo) /\ UNCHANGED history_vars

Next ==
    \/ Discv4Update
    \/ DnsNodeRecordUpdate
    \/ P2POk
    \/ P2PErr
    \/ EthErr
    \/ EthOk
    \/ Located
    \/ NetworkEvent
    \/ NetworkLocated

Spec == Init /\ [][Next]_vars

----------------------------------------------------------------------------
(* The same tasks when the handshake tasks of one identity never overlap: a
   candidate is taken from a discovery stream only while no handshake task of its
   identity is in flight *)

HandshakeInFlight(id) ==
    \E s \in Slots : /\ tasks[s].pc \notin Terminal
                     /\ tasks[s].adapter \in {"discv4", "dnsdisc"}
                     /\ tasks[s].peer.id = id

SeqDiscv4Update ==
    \E t \in Slots, peer \in Candidates :
        ~HandshakeInFlight(peer.id) /\ SpawnHandshake(t, "discv4", peer, MaxSpawn) /\ UNCHANGED history_vars
SeqDnsNodeRecordUpdate ==
    \E t \in Slots, peer \in Candidates :
        ~HandshakeInFlight(peer.id) /\ SpawnHandshake(t, "dnsdisc", peer, MaxSpawn) /\ UNCHANGED history_vars

SeqNext ==
    \/ SeqDiscv4Update
    \/ SeqDnsNodeRecordUpdate
    \/ P2POk
    \/ P2PErr
    \/ EthErr
    \/ EthOk
    \/ Located
    \/ NetworkEvent
    \/ NetworkLocated

SpecSeq == Init /\ [][SeqNext]_vars

----------------------------------------------------------------------------
(* The chain-height tracker alone: backfill and live tracker interleaved *)

CacheInit == Constructed(StartHeads) /\ loops = Looping

CacheNext ==
    \/ GetBlockNumberOk
    \/ GetBlockNumberErr
    \/ GetBlockOk
    \/ GetBlockErr
    \/ GetBlockNone
    \/ NewBlock

SpecCache == CacheInit /\ [][CacheNext]_vars

----------------------------------------------------------------------------
(* Tasks classifying while the backfill runs: one task at a time, of any of the
   three streams, whose peer reports one of SyncHashes as its best block *)

SyncSlots == {"s1"}

SyncCandidates == {[id |-> "p1", address |-> "10.0.0.1"]}

\* best blocks reported by the peers: the first block of the backfill that starts
\* at head 101, and a block the provider never serves
SyncHashes == {BlockHash(1), ForeignHash}

SyncDiscv4Update ==
    \E t \in SyncSlots, peer \in SyncCandidates :
        SpawnHandshake(t, "discv4", peer, MaxSyncSpawn) /\ UNCHANGED history_vars
SyncDnsNodeRecordUpdate ==
    \E t \in SyncSlots, peer \in SyncCandidates :
        SpawnHandshake(t, "dnsdisc", peer, MaxSyncSpawn) /\ UNCHANGED history_vars
SyncP2POk ==
    \E t \in SyncSlots, version \in ClientVersions :
        HandshakeP2POk(t, version) /\ UNCHANGED history_vars
SyncP2PErr ==
    \E t \in SyncSlots, e \in P2PErrors : HandshakeP2PErr(t, e) /\ UNCHANGED history_vars
SyncEthErr ==
    \E t \in SyncSlots, e \in EthErrors :
        HandshakeEthErr(t, e) /\ UNCHANGED history_vars
SyncEthOk ==
    \E t \in SyncSlots, hash \in SyncHashes :
        HandshakeEthOk(t, hash) /\ UNCHANGED history_vars
SyncLocated ==
    \E t \in SyncSlots, geo \in GeoResults :
        Locate(t, geo) /\ UNCHANGED history_vars
SyncNetworkEvent ==
    \E t \in SyncSlots, peer \in SyncCandidates, version \in ClientVersions, hash \in SyncHashes :
        SessionEstablished(t, peer, version, hash, MaxSyncSpawn) /\ UNCHANGED history_vars
SyncNetworkLocated ==
    \E t \in SyncSlots, geo \in GeoResults :
        NetworkLocate(t, geo) /\ UNCHANGED history_vars

SyncNext ==
    \/ GetBlockNumberOk
    \/ GetBlockNumberErr
    \/ GetBlockOk
    \/ GetBlockErr
    \/ GetBlockNone
    \/ SyncDiscv4Update
    \/ SyncDnsNodeRecordUpdate
    \/ SyncP2POk
    \/ SyncP2PErr
    \/ SyncEthErr
    \/ SyncEthOk
    \/ SyncLocated
    \/ SyncNetworkEvent
    \/ SyncNetworkLocated

SpecSync == CacheInit /\ [][SyncNext]_vars

----------------------------------------------------------------------------
(* The handshake tasks of one identity, overlapping, with the history of its
   failures *)

\* one more layer-1 failure of id has been counted
Counted(map, id) == Insert(map, id, GetOrZero(map, id) + 1)

\* slot s holds a task that waits for handshake_p2p, of the identity of t's task,
\* that has read the count t's task has read, which is still the stored count
Overlaps(s, t) ==
    /\ s # t
    /\ tasks[s].pc = "handshake_p2p"
    /\ tasks[s].peer.id = tasks[t].peer.id
    /\ tasks[s].p2p_failure_count = tasks[t].p2p_failure_count
    /\ GetOrZero(p2p_failures, tasks[t].peer.id) = tasks[t].p2p_failure_count

\* what the step of HandshakeP2PErr(t, e) adds to the history
Recorded(t, e) ==
    LET id == tasks[t].peer.id
    IN  IF IsTooManyPeers(e)
        THEN UNCHANGED history_vars
        ELSE /\ failures' = Counted(failures, id)
             /\ last_ban' = IF tasks'[t].pc = "ret_banned"
                             THEN Insert(last_ban, id, GetOrZero(failures, id) + 1)
                             ELSE last_ban
             /\ race' = [s \in Slots |->
                             IF Overlaps(s, t)
                             THEN <<[by |-> t, n |-> tasks[t].p2p_failure_count]>>
                             ELSE race[s]]
             /\ UNCHANGED located

\* a task spawned in slot t has no overlap yet, and the task it replaces no
\* longer stands for an overlap
Forgotten(t) ==
    /\ race' = [s \in Slots |->
                    IF s = t \/ (race[s] # <<>> /\ race[s][1].by = t) THEN <<>> ELSE race[s]]
    /\ UNCHANGED <<failures, last_ban, located>>

RaceDiscv4Update ==
    \E t \in Slots, peer \in SyncCandidates :
        SpawnHandshake(t, "discv4", peer, MaxRaceSpawn) /\ Forgotten(t)
RaceDnsNodeRecordUpdate ==
    \E t \in Slots, peer \in SyncCandidates :
        SpawnHandshake(t, "dnsdisc", peer, MaxRaceSpawn) /\ Forgotten(t)
RaceP2PErr == \E t \in Slots, e \in P2PErrors : HandshakeP2PErr(t, e) /\ Recorded(t, e)

RaceNext ==
    \/ RaceDiscv4Update
    \/ RaceDnsNodeRecordUpdate
    \/ P2POk
    \/ RaceP2PErr
    \/ EthErr
    \/ EthOk
    \/ Located

SpecRace == Init /\ [][RaceNext]_vars

----------------------------------------------------------------------------
(* The backfill run again on the cache it has filled, the chain unchanged and the
   live tracker silent *)

RerunNext ==
    \/ GetBlockNumberOk
    \/ GetBlockNumberErr
    \/ GetBlockOk
    \/ GetBlockErr
    \/ GetBlockNone
    \/ InitializeStateAgain

SpecRerun == CacheInit /\ [][RerunNext]_vars

----------------------------------------------------------------------------
(* The driver loops from their start: the three stream adapters sleep SLEEP_TIME
   and then take their stream, start_state subscribes to the new blocks *)

Adapters == {"discv4", "dnsdisc", "network"}

\* the caller has started the four driver loops together with initialize_state
Started == [d \in Drivers |-> IF d = "state" THEN "subscribe" ELSE "sleep"]

\* time::sleep(SLEEP_TIME) is over and the adapter has its stream; nothing ties
\* the end of the sleep to the progress of initialize_state
SleepElapsedOk(d) ==
    /\ loops[d] = "sleep"
    /\ loops' = [loops EXCEPT ![d] = "loop"]
    /\ UNCHANGED <<handshake_vars, chain_vars>>

\* update_stream() / node_record_stream() returned Err: `?` returns it
SleepElapsedErr(d) ==
    /\ d \in {"discv4", "dnsdisc"}
    /\ loops[d] = "sleep"
    /\ loops' = [loops EXCEPT ![d] = "err"]
    /\ UNCHANGED <<handshake_vars, chain_vars>>

\* subscribe_blocks() returned the stream
SubscribeOk ==
    /\ loops["state"] = "subscribe"
    /\ loops' = [loops EXCEPT !["state"] = "loop"]
    /\ UNCHANGED <<handshake_vars, chain_vars>>

\* subscribe_blocks() returned Err: `?` returns it
SubscribeErr ==
    /\ loops["state"] = "subscribe"
    /\ loops' = [loops EXCEPT !["state"] = "err"]
    /\ UNCHANGED <<handshake_vars, chain_vars>>

\* what a driver loop returns when its stream has ended: start_network returns
\* (), the others Ok(())
ReturnAtStreamEnd(d) == IF d = "network" THEN "unit" ELSE "ok"

\* stream.next() returned None: the while loop ends and the function returns
StreamEnds(d) ==
    /\ loops[d] = "loop"
    /\ loops' = [loops EXCEPT ![d] = ReturnAtStreamEnd(d)]
    /\ UNCHANGED <<handshake_vars, chain_vars>>

StartInit == Constructed({101}) /\ loops = Started

GracePeriodOver == \E d \in Adapters : SleepElapsedOk(d)
StartDiscv4Update ==
    \E t \in SyncSlots, peer \in SyncCandidates :
        SpawnHandshake(t, "discv4", peer, MaxStartSpawn) /\ UNCHANGED history_vars
StartDnsNodeRecordUpdate ==
    \E t \in SyncSlots, peer \in SyncCandidates :
        SpawnHandshake(t, "dnsdisc", peer, MaxStartSpawn) /\ UNCHANGED history_vars
StartNetworkEvent ==
    \E t \in SyncSlots, peer \in SyncCandidates, version \in ClientVersions, hash \in SyncHashes :
        SessionEstablished(t, peer, version, hash, MaxStartSpawn) /\ UNCHANGED history_vars

StartNext ==
    \/ GracePeriodOver
    \/ GetBlockNumberOk
    \/ GetBlockNumberErr
    \/ GetBlockOk
    \/ GetBlockErr
    \/ GetBlockNone
    \/ StartDiscv4Update
    \/ StartDnsNodeRecordUpdate
    \/ SyncP2POk
    \/ SyncP2PErr
    \/ SyncEthErr
    \/ SyncEthOk
    \/ SyncLocated
    \/ StartNetworkEvent
    \/ SyncNetworkLocated

SpecStart == StartInit /\ [][StartNext]_vars

----------------------------------------------------------------------------
(* The four driver loops from their start to their return *)

StreamRequestFails == \E d \in Adapters : SleepElapsedErr(d)
StreamEnded == \E d \in Drivers : StreamEnds(d)

DriversNext ==
    \/ GracePeriodOver
    \/ StreamRequestFails
    \/ SubscribeOk
    \/ SubscribeErr
    \/ StreamEnded
    \/ NewBlock
    \/ StartDiscv4Update
    \/ StartDnsNodeRecordUpdate
    \/ StartNetworkEvent
    \/ SyncP2POk
    \/ SyncP2PErr
    \/ SyncEthErr
    \/ SyncEthOk
    \/ SyncLocated
    \/ SyncNetworkLocated

SpecDrivers == StartInit /\ [][DriversNext]_vars

----------------------------------------------------------------------------
(* start_state from its start, next to initialize_state: the live tracker
   subscribes without a sleep and puts its blocks while the backfill runs *)

LiveNext ==
    \/ SubscribeOk
    \/ SubscribeErr
    \/ NewBlock
    \/ GetBlockNumberOk
    \/ GetBlockNumberErr
    \/ GetBlockOk
    \/ GetBlockErr
    \/ GetBlockNone

SpecLive == StartInit /\ [][LiveNext]_vars

----------------------------------------------------------------------------
(* The tasks of the three streams with the history of their lookups *)

\* Locator::get has returned geo to the task of slot t
LookedUp(t, geo) ==
    /\ located' = [located EXCEPT ![t] = <<geo>>]
    /\ UNCHANGED <<failures, last_ban, race>>

\* the task spawned in slot t has not called Locator::get yet
NotLookedUp(t) ==
    /\ located' = [located EXCEPT ![t] = <<>>]
    /\ UNCHANGED <<failures, last_ban, race>>

GeoDiscv4Update ==
    \E t \in Slots, peer \in Candidates :
        SpawnHandshake(t, "discv4", peer, MaxGeoSpawn) /\ NotLookedUp(t)
GeoDnsNodeRecordUpdate ==
    \E t \in Slots, peer \in Candidates :
        SpawnHandshake(t, "dnsdisc", peer, MaxGeoSpawn) /\ NotLookedUp(t)
GeoNetworkEvent ==
    \E t \in Slots, peer \in Candidates, version \in ClientVersions :
        SessionEstablished(t, peer, version, ForeignHash, MaxGeoSpawn) /\ NotLookedUp(t)
GeoLocated ==
    \E t \in Slots, geo \in GeoResults : Locate(t, geo) /\ LookedUp(t, geo)
GeoNetworkLocated ==
    \E t \in Slots, geo \in GeoResults : NetworkLocate(t, geo) /\ LookedUp(t, geo)

GeoNext ==
    \/ GeoDiscv4Update
    \/ GeoDnsNodeRecordUpdate
    \/ P2POk
    \/ P2PErr
    \/ EthErr
    \/ EthOk
    \/ GeoLocated
    \/ GeoNetworkEvent
    \/ GeoNetworkLocated

SpecGeo == Init /\ [][GeoNext]_vars

----------------------------------------------------------------------------
(* Properties *)

Stored(map, id) == IF id \in DOMAIN map THEN map[id] ELSE 0

CapacityError == <<"Disconnected", "Too many peers">>

\* task t's handshake_p2p returns an error other than "Too many peers" in this step
FailsLayer1(t) ==
    /\ tasks[t].pc = "handshake_p2p"
    /\ tasks'[t].error # <<>>
    /\ tasks'[t].error[1].message # CapacityError

\* task t's handshake_p2p returns the "Too many peers" error in this step
FailsAtCapacity(t) ==
    /\ tasks[t].pc = "handshake_p2p"
    /\ tasks'[t].error # <<>>
    /\ tasks'[t].error[1].message = CapacityError

\* task t's handshake_eth returns an error in this step
FailsLayer2(t) ==
    /\ tasks[t].pc = "handshake_eth"
    /\ tasks'[t].error # <<>>

\* task t of the discv4 or dnsdisc stream finds the client_version empty in this step
FindsEmptyVersion(t) ==
    /\ tasks[t].pc = "handshake_eth"
    /\ tasks'[t].their_status # <<>>
    /\ tasks[t].their_hello[1].client_version = ""

\* task t calls ban_ip in this step
IssuesBan(t) ==
    /\ Len(tasks'[t].calls) > Len(tasks[t].calls)
    /\ \E i \in (Len(tasks[t].calls) + 1)..Len(tasks'[t].calls) : tasks'[t].calls[i] = "ban_ip"
    /\ tasks'[t].peer.address \in banned'

Count(seq, x) == Cardinality({i \in 1..Len(seq) : seq[i] = x})

\* C1: when the handshake tasks of an identity never overlap, every layer-1
\* failure other than "Too many peers" finds the stored count c in 0..4; for
\* c < 4 it stores c + 1 and issues no ban, for c = 4 it bans the peer's address
\* and stores 0; no stored count ever equals the threshold.
C1_SequentialAccrual ==
    [][\A t \in Slots : FailsLayer1(t) =>
          LET id == tasks[t].peer.id
              c == Stored(p2p_failures, id)
          IN  /\ c \in 0..4
              /\ c < 4 => /\ Stored(p2p_failures', id) = c + 1
                          /\ ~IssuesBan(t)
                          /\ banned' = banned
              /\ c = 4 => /\ IssuesBan(t)
                          /\ Stored(p2p_failures', id) = 0
              /\ \A k \in DOMAIN p2p_failures' : p2p_failures'[k] # 5]_vars

\* the fifth failure in a row of one identity has banned its address and left 0
C1_Witness ==
    \E t \in Slots :
        /\ tasks[t].pc = "ret_banned"
        /\ tasks[t].p2p_failure_count = 5
        /\ Count(tasks[t].calls, "ban_ip") = 1
        /\ tasks[t].peer.address \in banned
        /\ tasks[t].peer.id \in DOMAIN p2p_failures
        /\ p2p_failures[tasks[t].peer.id] = 0

\* C2 as claimed: after every ban event of a task (threshold, layer-2 failure or
\* empty client_version) the stored count of the task's peer is 0.
C2_AnyBanLeavesZero ==
    [][\A t \in Slots : IssuesBan(t) => Stored(p2p_failures', tasks[t].peer.id) = 0]_vars

\* C2 as amended: in every interleaving, a ban issued by the threshold rule
\* leaves the stored count of the peer at 0; a ban issued for a layer-2 failure
\* or an empty client_version leaves the ledger as it was.
C2_ThresholdBanLeavesZero ==
    [][\A t \in Slots : IssuesBan(t) =>
          IF tasks[t].pc = "handshake_p2p"
          THEN /\ tasks[t].peer.id \in DOMAIN p2p_failures'
               /\ p2p_failures'[tasks[t].peer.id] = 0
          ELSE p2p_failures' = p2p_failures]_vars

\* two overlapping tasks of one identity have both banned it, and the count is 0
C2_Witness ==
    \E t, u \in Slots :
        /\ t # u
        /\ tasks[t].pc = "ret_banned"
        /\ tasks[u].pc = "ret_banned"
        /\ tasks[t].peer = tasks[u].peer
        /\ Stored(p2p_failures, tasks[t].peer.id) = 0

\* C3: a layer-1 failure with "Too many peers" leaves the ledger, the ban list
\* and the persistence sink as they were, and the task returns without any call.
C3_CapacityChangesNothing ==
    [][\A t \in Slots : FailsAtCapacity(t) =>
          /\ p2p_failures' = p2p_failures
          /\ banned' = banned
          /\ db' = db
          /\ tasks'[t].calls = tasks[t].calls
          /\ tasks'[t].peer_data = <<>>
          /\ tasks'[t].pc \in Terminal]_vars

\* a task has returned on "Too many peers" while its peer's stored count is 4
C3_Witness ==
    \E t \in Slots :
        /\ tasks[t].pc = "ret_capacity"
        /\ tasks[t].calls = <<"send_lookup", "p2p_failures.get", "handshake_p2p">>
        /\ Stored(p2p_failures, tasks[t].peer.id) = 4
        /\ banned = {}

\* C4: a layer-2 failure bans the peer's address at once, whatever the stored
\* count, leaves the ledger as it was, and the task returns without a PeerData.
C4_Layer2FailureBans ==
    [][\A t \in Slots : FailsLayer2(t) =>
          /\ IssuesBan(t)
          /\ p2p_failures' = p2p_failures
          /\ db' = db
          /\ tasks'[t].peer_data = <<>>
          /\ tasks'[t].pc \in Terminal]_vars

\* a layer-2 failure has banned a peer whose stored count is still 4
C4_Witness ==
    \E t \in Slots :
        /\ tasks[t].pc = "ret_eth"
        /\ Count(tasks[t].calls, "ban_ip") = 1
        /\ tasks[t].peer.address \in banned
        /\ Stored(p2p_failures, tasks[t].peer.id) = 4

\* C5: a discv4 or dnsdisc task whose peer passed both handshakes with an empty
\* client_version has banned the peer's address and has handed over no PeerData;
\* no task of any of the three streams hands over a PeerData with an empty
\* client_version.
C5_EmptyVersionBansAndDrops ==
    /\ \A t \in Slots :
           (/\ tasks[t].their_hello # <<>>
            /\ tasks[t].their_status # <<>>
            /\ tasks[t].their_hello[1].client_version = "") =>
               /\ tasks[t].peer_data = <<>>
               /\ Count(tasks[t].calls, "save_peer") = 0
               /\ tasks[t].adapter \in {"discv4", "dnsdisc"} =>
                      /\ tasks[t].peer.address \in banned
                      /\ Count(tasks[t].calls, "ban_ip") = 1
                      /\ tasks[t].pc \in Terminal
    /\ \A r \in db : r.client_version # ""

\* both kinds of task have met an empty client_version
C5_Witness ==
    \E t, u \in Slots :
        /\ tasks[t].adapter = "discv4"
        /\ tasks[t].pc = "ret_empty"
        /\ tasks[t].their_status # <<>>
        /\ Count(tasks[t].calls, "ban_ip") = 1
        /\ tasks[u].adapter = "network"
        /\ tasks[u].pc = "ret_empty"

\* the task has passed layer 1 and layer 2 with a client_version that is not empty
Qualified(task) ==
    /\ task.their_hello # <<>>
    /\ task.their_status # <<>>
    /\ task.their_hello[1].client_version # ""

\* C6: a task calls save_peer at most once; a task that has returned has called
\* it exactly once if and only if layer 1 and layer 2 succeeded and the
\* client_version is not empty; a task whose layer-1 handshake failed has no
\* PeerData and has done nothing after the failure but write the ledger or ban.
C6_OneRecordPerQualifiedTask ==
    \A t \in Slots :
        /\ Count(tasks[t].calls, "save_peer") <= 1
        /\ Count(tasks[t].calls, "save_peer") = Len(tasks[t].peer_data)
        /\ tasks[t].peer_data # <<>> => tasks[t].peer_data[1] \in db
        /\ (tasks[t].pc \in Terminal /\ tasks[t].pc # "free") =>
               (Count(tasks[t].calls, "save_peer") = 1 <=> Qualified(tasks[t]))
        /\ (tasks[t].error # <<>> /\ tasks[t].error[1].layer = "p2p") =>
               /\ tasks[t].peer_data = <<>>
               /\ \E rest \in {<<>>, <<"p2p_failures.insert">>,
                               <<"ban_ip", "p2p_failures.insert">>} :
                      tasks[t].calls =
                          <<"send_lookup", "p2p_failures.get", "handshake_p2p">> \o rest

\* one task has handed over its PeerData while another failed layer 1
C6_Witness ==
    \E t, u \in Slots :
        /\ tasks[t].pc = "saved"
        /\ tasks[t].adapter = "dnsdisc"
        /\ tasks[t].peer_data # <<>>
        /\ tasks[u].pc = "ret_counted"
        /\ tasks[u].peer_data = <<>>

\* the hashes put at the positions from..Len(log) of the log
LogSet(log, from) == {log[i] : i \in from..Len(log)}

\* the position of the last put of h
LastPut(log, h) ==
    LET at == {i \in 1..Len(log) : log[i] = h}
    IN  CHOOSE i \in at : \A j \in at : j <= i

NoDuplicates(log) == Cardinality(LogSet(log, 1)) = Len(log)

\* h was put, and fewer than SYNCED_THRESHOLD other hashes were put since then
InsertedNotEvicted(log, h) ==
    /\ h \in LogSet(log, 1)
    /\ Cardinality(LogSet(log, LastPut(log, h) + 1)) < SYNCED_THRESHOLD

\* the hashes of the last SYNCED_THRESHOLD puts
LastPuts(log) ==
    LogSet(log, IF Len(log) > SYNCED_THRESHOLD THEN Len(log) - SYNCED_THRESHOLD + 1 ELSE 1)

\* C7: only a put changes the cache, and the cache never holds more than 100
\* entries; a put of a hash that is not in a cache of 100 entries removes exactly
\* one entry, the one whose last put is the oldest.
C7_AtMost100EvictsLeastRecent ==
    [][IF put_log' = put_log
       THEN blocks_hash_to_number' = blocks_hash_to_number
       ELSE LET h == put_log'[Len(put_log')]
            IN  /\ Len(blocks_hash_to_number') <= 100
                /\ Contains(blocks_hash_to_number', h)
                /\ (Len(blocks_hash_to_number) = 100 /\ ~Contains(blocks_hash_to_number, h)) =>
                       /\ Len(blocks_hash_to_number') = 100
                       /\ \E v \in 1..100 :
                              LET victim == blocks_hash_to_number[v].hash
                                  since == LastPut(put_log, victim) + 1
                              IN  /\ ~Contains(blocks_hash_to_number', victim)
                                  /\ \A i \in (1..100) \ {v} :
                                         LET kept == blocks_hash_to_number[i].hash
                                         IN  /\ kept # victim
                                             /\ Contains(blocks_hash_to_number', kept)
                                             /\ \E j \in since..Len(put_log) :
                                                    put_log[j] = kept]_vars

\* the backfill has filled the cache and a block of the live tracker has then
\* taken the place of the oldest entry
C7_Witness ==
    /\ init_pc = "ok"
    /\ live_blocks = 1
    /\ Len(put_log) = 102
    /\ put_log[102] = BlockHash(102)
    /\ Len(blocks_hash_to_number) = 100
    /\ blocks_hash_to_number[1].hash = BlockHash(102)
    /\ blocks_hash_to_number[100].hash = BlockHash(3)

\* C8: as long as the hashes put so far are pairwise distinct, the cache holds
\* exactly the hashes of the last 100 puts (all of them when there are fewer).
C8_DistinctPutsKeepLast100 ==
    NoDuplicates(put_log) => Keys(blocks_hash_to_number) = LastPuts(put_log)

\* heights 1..101 have been put into the empty cache in this order: height 1 is
\* gone, heights 2..101 are in the cache
C8_Witness ==
    /\ Len(put_log) = 101
    /\ \A n \in 1..101 : put_log[n] = BlockHash(n)
    /\ ~Contains(blocks_hash_to_number, BlockHash(1))
    /\ \A n \in 2..101 : Contains(blocks_hash_to_number, BlockHash(n))

\* task t classifies its peer in this step
Classifies(t) ==
    Count(tasks'[t].calls, "contains") > Count(tasks[t].calls, "contains")

\* C9: contains(h) is true if and only if h was put and has not been evicted
\* since; a classification leaves the cache, order included, as it was.
C9_ContainsIffInsertedNotEvicted ==
    /\ [](\A h \in SyncHashes \cup {BlockHash(last_block_number)} :
              Contains(blocks_hash_to_number, h) <=> InsertedNotEvicted(put_log, h))
    /\ [][\A t \in Slots : Classifies(t) =>
              /\ blocks_hash_to_number' = blocks_hash_to_number
              /\ put_log' = put_log]_vars

\* a task found block 1 in the cache, and block 1 has been evicted afterwards
C9_Witness ==
    \E t \in Slots :
        /\ tasks[t].peer_data # <<>>
        /\ tasks[t].peer_data[1].best_block = BlockHash(1)
        /\ tasks[t].peer_data[1].synced
        /\ BlockHash(1) \in LogSet(put_log, 1)
        /\ ~Contains(blocks_hash_to_number, BlockHash(1))

\* C10: the PeerData a task hands to save_peer carries the best block of the
\* peer's status and synced = TRUE exactly when the cache contains that hash at
\* the step of the classification; a best block among the last 100 puts gives
\* synced = TRUE.
C10_SyncedIsMembership ==
    [][\A t \in Slots : Classifies(t) =>
          /\ tasks'[t].peer_data # <<>>
          /\ LET r == tasks'[t].peer_data[1]
             IN  /\ db' = db \cup {r}
                 /\ r.best_block = tasks[t].their_status[1].blockhash
                 /\ r.synced \in BOOLEAN
                 /\ r.synced <=> r.best_block \in Keys(blocks_hash_to_number)
                 /\ r.best_block \in LastPuts(put_log) => r.synced]_vars

\* records of both classes have been handed over for the same best block
C10_Witness ==
    \E r, q \in db :
        /\ r.best_block = BlockHash(1)
        /\ q.best_block = BlockHash(1)
        /\ r.synced
        /\ ~q.synced

\* C11: no task of any of the three stream adapters classifies its peer before
\* initialize_state has put its last height and returned.
C11_BackfillBeforeClassification ==
    [][\A t \in Slots : Classifies(t) => init_pc = "ok"]_vars

\* the hashes of the SYNCED_THRESHOLD highest heights up to last
RecentHashes(last) == {BlockHash(n) : n \in (last - SYNCED_THRESHOLD + 1)..last}

\* C12: with the chain unchanged and no block from the live tracker, every
\* completed run of the backfill, the first and each later one, leaves the cache
\* with one and the same set of hashes (none when the range is empty).
C12_RerunKeepsMembership ==
    (init_pc = "ok" /\ live_blocks = 0) =>
        Keys(blocks_hash_to_number) =
            IF Underflows(last_block_number) THEN {} ELSE RecentHashes(last_block_number)

\* the second run over heights 1..101 has completed
C12_Witness ==
    /\ init_pc = "ok"
    /\ init_runs = 2
    /\ live_blocks = 0
    /\ Len(put_log) = 202
    /\ put_log[102] = BlockHash(1)
    /\ Keys(blocks_hash_to_number) = RecentHashes(101)

\* C13: when a task u fails layer 1 after an overlapping task of its identity,
\* which had read the same count n, has failed layer 1, the two failures leave
\* n + 1 or n + 2 in the ledger, or a ban has been issued, and then n + 2 >= 5.
C13_OverlapMiscountsByAtMostOne ==
    [][\A u \in Slots : (FailsLayer1(u) /\ race[u] # <<>>) =>
          LET n == race[u][1].n
              t == race[u][1].by
              final == Stored(p2p_failures', tasks[u].peer.id)
              ban == IssuesBan(u) \/ tasks[t].pc = "ret_banned"
          IN  /\ tasks[t].pc \in {"ret_counted", "ret_banned"}
              /\ tasks[t].peer.id = tasks[u].peer.id
              /\ ban => n + 2 >= P2P_FAILURE_THRESHOLD
              /\ ~ban => final \in {n + 1, n + 2}]_vars

\* two overlapping tasks that both read 2 have both failed, and the ledger holds 3
C13_Witness ==
    \E t, u \in Slots :
        /\ race[u] = <<[by |-> t, n |-> 2]>>
        /\ tasks[t].pc = "ret_counted"
        /\ tasks[u].pc = "ret_counted"
        /\ tasks[u].p2p_failure_count = 3
        /\ Stored(p2p_failures, tasks[u].peer.id) = 3
        /\ failures[tasks[u].peer.id] = 4

\* C14: a driver loop that leaves its loop because its stream has ended returns
\* a failure to its caller.
C14_StreamEndIsFailure ==
    [][\A d \in Drivers : (loops[d] = "loop" /\ loops'[d] # "loop") => loops'[d] = "err"]_vars

\* the hashes of the heights from..to, in ascending order
HashesOf(from, to) == [i \in 1..(to - from + 1) |-> BlockHash(from + i - 1)]

\* C15: the step in which a fetch of the backfill fails puts nothing and ends the
\* backfill with an error; from then on the backfill requests no further height
\* and every put is one of the live tracker; as long as the live tracker is
\* silent, the puts of the backfill are the heights below the one it requests
\* (or has failed to fetch), in order, and all of them are in the cache.
C15_FetchFailureEndsBackfill ==
    /\ [][(init_pc # "err" /\ init_pc' = "err") =>
              /\ init_pc \in {"start", "loop"}
              /\ blocks_hash_to_number' = blocks_hash_to_number
              /\ put_log' = put_log
              /\ block_number' = block_number]_vars
    /\ [][init_pc = "err" =>
              /\ init_pc' = "err"
              /\ block_number' = block_number
              /\ last_block_number' = last_block_number
              /\ put_log' # put_log =>
                     /\ live_blocks' = live_blocks + 1
                     /\ put_log' = Append(put_log, BlockHash(head'))]_vars
    /\ []((init_pc \in {"loop", "err"} /\ live_blocks = 0 /\ init_runs = 1) =>
              IF last_block_number = 0
              THEN put_log = <<>> /\ blocks_hash_to_number = <<>>
              ELSE /\ put_log = HashesOf(last_block_number - SYNCED_THRESHOLD, block_number - 1)
                   /\ Len(blocks_hash_to_number) = Len(put_log)
                   /\ \A i \in 1..Len(put_log) : Contains(blocks_hash_to_number, put_log[i]))

\* the fetch of height 51 has failed after heights 1..50 were put, and a block of
\* the live tracker has been put since
C15_Witness ==
    /\ init_pc = "err"
    /\ last_block_number = 101
    /\ block_number = 51
    /\ live_blocks = 1
    /\ Len(put_log) = 51
    /\ put_log[51] = BlockHash(102)
    /\ \A n \in 1..50 : Contains(blocks_hash_to_number, BlockHash(n))
    /\ ~Contains(blocks_hash_to_number, BlockHash(51))

\* task t issues a ban by the threshold rule in this step
IssuesThresholdBan(t) == tasks[t].pc = "handshake_p2p" /\ IssuesBan(t)

\* C16 as claimed: when a task issues a threshold ban, at least 5 layer-1 failures
\* of its identity (other than "Too many peers") have been counted since the
\* previous threshold ban of the identity, or since the start.
C16_FiveFailuresBetweenBans ==
    [][\A t \in Slots : IssuesThresholdBan(t) =>
          LET id == tasks[t].peer.id
          IN  GetOrZero(failures', id) - GetOrZero(last_ban, id) >= P2P_FAILURE_THRESHOLD]_vars

\* C16 as amended: a threshold ban is issued only by a task that read the stored
\* count 4 and whose handshake_p2p failed with an error other than "Too many
\* peers", and only when at least 5 such failures of the identity have been
\* counted since the start.
C16_BanOnlyAfterReadingFour ==
    [][\A t \in Slots : IssuesThresholdBan(t) =>
          LET id == tasks[t].peer.id
          IN  /\ FailsLayer1(t)
              /\ tasks[t].p2p_failure_count = P2P_FAILURE_THRESHOLD - 1
              /\ GetOrZero(failures', id) >= P2P_FAILURE_THRESHOLD]_vars

\* two overlapping tasks have both issued a threshold ban, the second one failure
\* after the first: 6 failures, 2 bans
C16_Witness ==
    \E t, u \in Slots :
        /\ t # u
        /\ tasks[t].pc = "ret_banned"
        /\ tasks[u].pc = "ret_banned"
        /\ tasks[t].peer.id = tasks[u].peer.id
        /\ GetOrZero(failures, tasks[t].peer.id) = 6
        /\ GetOrZero(last_ban, tasks[t].peer.id) = 6
        /\ race[u] = <<[by |-> t, n |-> 4]>>


\* C17: in every reachable state, under every interleaving of handshake tasks,
\* every count stored in the failure ledger is between 0 and 4, below the
\* threshold 5.
C17_StoredCountsBelowThreshold ==
    \A id \in DOMAIN p2p_failures :
        p2p_failures[id] \in 0..(P2P_FAILURE_THRESHOLD - 1)

\* two overlapping tasks of one identity have both read 3, both failed and both
\* stored 4
C17_Witness ==
    \E t, u \in Slots :
        /\ t # u
        /\ tasks[t].pc = "ret_counted"
        /\ tasks[u].pc = "ret_counted"
        /\ tasks[t].peer.id = tasks[u].peer.id
        /\ tasks[t].p2p_failure_count = P2P_FAILURE_THRESHOLD - 1
        /\ tasks[u].p2p_failure_count = P2P_FAILURE_THRESHOLD - 1
        /\ Stored(p2p_failures, tasks[t].peer.id) = P2P_FAILURE_THRESHOLD - 1


\* task t's handshake_p2p returns Ok in this step
SucceedsLayer1(t) ==
    /\ tasks[t].pc = "handshake_p2p"
    /\ tasks'[t].their_hello # <<>>

\* task t, whose handshake_p2p has returned Ok, takes a step
StepsAfterLayer1(t) ==
    /\ tasks[t].pc \in {"handshake_eth", "locate"}
    /\ tasks'[t] # tasks[t]

\* C18: a handshake task whose layer-1 handshake succeeds never writes the
\* failure ledger: the step of the success and every later step of the task
\* (layer-2 failure, empty client_version, hand-over to save_peer) leave every
\* stored count as it was, and the task never calls p2p_failures.insert.
C18_SuccessLeavesLedger ==
    /\ [](\A t \in Slots :
             tasks[t].their_hello # <<>> => Count(tasks[t].calls, "p2p_failures.insert") = 0)
    /\ [][\A t \in Slots : (SucceedsLayer1(t) \/ StepsAfterLayer1(t)) =>
              p2p_failures' = p2p_failures]_vars

\* a task that read the count 1 has passed both handshakes and handed its record
\* over; the count of its peer went on from 1 and stands at 3
C18_Witness ==
    \E t, u \in Slots :
        /\ t # u
        /\ tasks[t].pc = "saved"
        /\ tasks[t].p2p_failure_count = 1
        /\ tasks[u].pc = "ret_counted"
        /\ tasks[u].peer.id = tasks[t].peer.id
        /\ tasks[u].p2p_failure_count = 3
        /\ Stored(p2p_failures, tasks[t].peer.id) = 3


\* C19: after a backfill that returned Ok(()) on a cache that was empty, with the
\* chain at height L >= 100 and no block of the live tracker put, the puts are
\* the 101 heights L-100..L in ascending order and the cache holds exactly the
\* 100 hashes of the heights L-99..L; the hash of height L-100 is not in it.
C19_BackfillKeepsLastHundred ==
    (/\ init_pc = "ok"
     /\ init_runs = 1
     /\ live_blocks = 0
     /\ last_block_number >= SYNCED_THRESHOLD) =>
        LET L == last_block_number
        IN  /\ L = head
            /\ Len(put_log) = SYNCED_THRESHOLD + 1
            /\ put_log = HashesOf(L - SYNCED_THRESHOLD, L)
            /\ Len(blocks_hash_to_number) = SYNCED_THRESHOLD
            /\ Keys(blocks_hash_to_number) = RecentHashes(L)
            /\ ~Contains(blocks_hash_to_number, BlockHash(L - SYNCED_THRESHOLD))

\* the backfill from height 101 has returned Ok(()) and no block has arrived:
\* height 1 was put first and is gone, height 2 is the oldest left
C19_Witness ==
    /\ init_pc = "ok"
    /\ init_runs = 1
    /\ live_blocks = 0
    /\ last_block_number = 101
    /\ put_log[1] = BlockHash(1)
    /\ ~Contains(blocks_hash_to_number, BlockHash(1))
    /\ Contains(blocks_hash_to_number, BlockHash(2))
    /\ Contains(blocks_hash_to_number, BlockHash(101))


\* the hash is one of a block announced by the live tracker after the backfill
\* took the chain height
IsLive(h) == h.number > last_block_number

\* a block of the live tracker was put before a put of the backfill
LiveDuringBackfill ==
    \E i \in 1..Len(put_log) :
        /\ IsLive(put_log[i])
        /\ \E j \in (i + 1)..Len(put_log) : ~IsLive(put_log[j])

\* C20: when the live tracker has put blocks while the backfill was running,
\* then once the backfill has returned Ok(()) the cache holds the hashes of the
\* 100 highest heights put so far, and no put of the backfill removes the hash
\* of a block of the live tracker from the cache.
C20_LiveBlocksOutliveBackfill ==
    /\ []((init_pc = "ok" /\ init_runs = 1 /\ LiveDuringBackfill) =>
              Keys(blocks_hash_to_number) = RecentHashes(head))
    /\ [][(put_log' # put_log /\ live_blocks' = live_blocks) =>
              \A n \in (last_block_number + 1)..head :
                  Contains(blocks_hash_to_number, BlockHash(n)) =>
                      Contains(blocks_hash_to_number', BlockHash(n))]_vars


\* get_block_number returns the chain height in this step
TakesChainHeight == init_pc = "start" /\ init_pc' # "start" /\ init_pc' # "err"

\* C21: for every chain height L the chain returns, L < 100 included, the
\* backfill computes its first height L - 100 in u64 without underflow (it
\* neither panics nor wraps) and enters its loop at a height in 0..L, and every
\* height it requests is in 0..L.
C21_FirstHeightWithoutUnderflow ==
    /\ [][TakesChainHeight =>
              /\ ~Underflows(last_block_number')
              /\ init_pc' = "loop"
              /\ block_number' \in 0..last_block_number']_vars
    /\ [](init_pc = "loop" => block_number \in 0..last_block_number)


\* Locator::get returns Err to task t in this step
LookupFails(t) ==
    /\ tasks[t].pc = "locate"
    /\ located[t] = <<>>
    /\ located'[t] = <<"Err">>

\* C22: a failed geolocation lookup never aborts a task: when the client_version
\* is not empty (both handshakes have succeeded, or the session is established),
\* the step hands a PeerData of the peer over to save_peer with country, city
\* and isp empty, and it writes no ledger entry and issues no ban.
C22_LookupFailureStillPersists ==
    [][\A t \in Slots :
          (LookupFails(t) /\ tasks[t].their_hello[1].client_version # "") =>
              /\ tasks'[t].pc = "saved"
              /\ Count(tasks'[t].calls, "save_peer") = Count(tasks[t].calls, "save_peer") + 1
              /\ Len(tasks'[t].peer_data) = 1
              /\ LET data == tasks'[t].peer_data[1]
                 IN  /\ data \in db'
                     /\ data.id = tasks[t].peer.id
                     /\ data.client_version = tasks[t].their_hello[1].client_version
                     /\ data.country = ""
                     /\ data.city = ""
                     /\ data.isp = ""
              /\ p2p_failures' = p2p_failures
              /\ banned' = banned
              /\ ~IssuesBan(t)]_vars

\* a discovery task whose peer has one counted failure and a network task have
\* both handed over a PeerData after a failed lookup
C22_Witness ==
    \E t, u \in Slots :
        /\ tasks[t].adapter \in {"discv4", "dnsdisc"}
        /\ tasks[u].adapter = "network"
        /\ tasks[t].pc = "saved"
        /\ tasks[u].pc = "saved"
        /\ located[t] = <<"Err">>
        /\ located[u] = <<"Err">>
        /\ tasks[t].peer_data[1].country = ""
        /\ tasks[u].peer_data[1].isp = ""
        /\ tasks[t].peer_data[1] \in db
        /\ tasks[u].peer_data[1] \in db
        /\ Stored(p2p_failures, tasks[t].peer.id) = 1
        /\ banned = {}


\* the steps of a discovery task, in the order of the source
StepOrder ==
    <<"send_lookup", "handshake_p2p", "handshake_eth", "Locator::get", "contains", "save_peer">>

StepNames == {StepOrder[i] : i \in 1..Len(StepOrder)}

\* the steps among the calls of a task, in the order in which it made them
Steps(calls) == SelectSeq(calls, LAMBDA c : c \in StepNames)

IsPrefix(a, b) == Len(a) <= Len(b) /\ \A i \in 1..Len(a) : a[i] = b[i]

\* C23: in every task of start_discv4 and start_dnsdisc the first call is
\* send_lookup, whatever becomes of the handshakes, and the steps follow each
\* other in the order send_lookup, handshake_p2p, handshake_eth, client_version
\* check, Locator::get, classification, save_peer; a step is begun only when
\* the one before it has finished: handshake_eth with the hello of layer 1,
\* Locator::get with the status of layer 2 and a client_version found not empty,
\* the classification with the answer of Locator::get, save_peer with the
\* PeerData that holds the classification.
C23_StepsInFixedOrder ==
    \A t \in Slots :
        tasks[t].adapter \in {"discv4", "dnsdisc"} =>
            LET calls == tasks[t].calls
            IN  /\ calls # <<>>
                /\ calls[1] = "send_lookup"
                /\ IsPrefix(Steps(calls), StepOrder)
                /\ Count(calls, "handshake_eth") > 0 => tasks[t].their_hello # <<>>
                /\ Count(calls, "Locator::get") > 0 =>
                       /\ tasks[t].their_status # <<>>
                       /\ tasks[t].their_hello[1].client_version # ""
                /\ Count(calls, "contains") > 0 => located[t] # <<>>
                /\ Count(calls, "save_peer") > 0 =>
                       /\ tasks[t].peer_data # <<>>
                       /\ tasks[t].peer_data[1].synced \in BOOLEAN
                /\ tasks[t].pc = "handshake_p2p" => Steps(calls) = SubSeq(StepOrder, 1, 2)
                /\ tasks[t].pc = "handshake_eth" => Steps(calls) = SubSeq(StepOrder, 1, 3)
                /\ tasks[t].pc = "locate" => Steps(calls) = SubSeq(StepOrder, 1, 4)

\* one discovery task has gone through all its steps, another has failed layer 1
\* after its send_lookup
C23_Witness ==
    \E t, u \in Slots :
        /\ tasks[t].adapter \in {"discv4", "dnsdisc"}
        /\ tasks[t].pc = "saved"
        /\ Steps(tasks[t].calls) = StepOrder
        /\ located[t] # <<>>
        /\ tasks[u].adapter \in {"discv4", "dnsdisc"}
        /\ tasks[u].pc = "ret_counted"
        /\ Steps(tasks[u].calls) = SubSeq(StepOrder, 1, 2)


\* a task of start_network is spawned in slot t, or the task of slot t takes a
\* step, in this step
NetworkTaskSteps(t) ==
    /\ tasks'[t] # tasks[t]
    /\ tasks'[t].adapter = "network"

\* C24: no step of a task of start_network changes the failure ledger or the
\* ban list, and the task never calls ban_ip or p2p_failures.insert, whatever
\* its outcome, an empty client_version included; every such task calls
\* remove_peer exactly once, as its first call, also when it hands over no
\* PeerData.
C24_NetworkTasksOnlyDropSession ==
    /\ [][\A t \in Slots : NetworkTaskSteps(t) =>
              /\ p2p_failures' = p2p_failures
              /\ banned' = banned
              /\ ~IssuesBan(t)]_vars
    /\ [](\A t \in Slots : tasks[t].adapter = "network" =>
              /\ Count(tasks[t].calls, "remove_peer") = 1
              /\ tasks[t].calls[1] = "remove_peer"
              /\ Count(tasks[t].calls, "ban_ip") = 0
              /\ Count(tasks[t].calls, "p2p_failures.insert") = 0
              /\ Count(tasks[t].calls, "p2p_failures.get") = 0)

\* of two tasks of start_network one has returned on an empty client_version and
\* one has handed over its PeerData; the ledger holds a count, nothing is banned
C24_Witness ==
    \E t, u \in Slots :
        /\ tasks[t].adapter = "network"
        /\ tasks[u].adapter = "network"
        /\ tasks[t].pc = "ret_empty"
        /\ tasks[t].their_hello[1].client_version = ""
        /\ tasks[t].peer_data = <<>>
        /\ Count(tasks[t].calls, "remove_peer") = 1
        /\ tasks[u].pc = "saved"
        /\ Count(tasks[u].calls, "remove_peer") = 1
        /\ Stored(p2p_failures, tasks[t].peer.id) = 1
        /\ banned = {}

====
